---- MODULE Spec2Model ----
(***************************************************************************)
(* PlugPredict: 12-hour plug-occupancy forecast.                           *)
(*                                                                         *)
(*   src/PlugPredict.py  load_txt_to_dataframe, logistic_regression_train, *)
(*                       forecast_12h_from_txt                             *)
(*   src/api.py          compute_forecast (POST /forecast)                  *)
(*                                                                         *)
(* Numbers.  A float of the program is a fixed-point integer counting      *)
(* 1/SCALE units (0.05 is 50, 0.6 is 600); a product is divided by SCALE   *)
(* and rounded to the nearest unit.  np.sin, np.cos and the logistic curve *)
(* are tabulated at that resolution.  A timestamp is a whole number of     *)
(* minutes counted from a Monday 00:00.                                    *)
(***************************************************************************)
EXTENDS Integers, Sequences, FiniteSets, TLC

\* -------------------------------------------------------------------------
\* Fixed-point arithmetic
\* -------------------------------------------------------------------------

SCALE == 1000

Abs(a) == IF a < 0 THEN -a ELSE a

\* a / b rounded to the nearest integer (b > 0), halves away from zero.
RDiv(a, b) == IF a >= 0 THEN (2 * a + b) \div (2 * b)
                        ELSE -((2 * (-a) + b) \div (2 * b))

\* Product of two fixed-point numbers.
FMul(a, b) == RDiv(a * b, SCALE)

RECURSIVE SumTo(_, _)
SumTo(f, n) == IF n = 0 THEN 0 ELSE f[n] + SumTo(f, n - 1)

\* Sum of the entries of a sequence.
SeqSum(s) == SumTo(s, Len(s))

\* The sequence << F(1), ..., F(n) >>, each entry computed once.
RECURSIVE Tabulate(_, _)
Tabulate(F(_), n) == IF n = 0 THEN <<>> ELSE Append(Tabulate(F, n - 1), F(n))

\* np.clip(z, lo, hi)
Clip(z, lo, hi) == IF z < lo THEN lo ELSE IF z > hi THEN hi ELSE z

\* -------------------------------------------------------------------------
\* sigmoid, add_bias, predict_logistic_regression
\* -------------------------------------------------------------------------

SIGMOID_CLIP == 500

\* 1/(1+exp(-z)) at z = 0, 0.25, 0.5, ..., 8, in 1/SCALE units.
LogisticTable ==
  << 500, 562, 622, 679, 731, 777, 818, 852, 881, 905, 924, 940, 953, 963,
     971, 977, 982, 986, 989, 991, 993, 995, 996, 997, 998, 998, 998, 999,
     999, 999, 999, 1000, 1000 >>

\* 1/(1+exp(-z)) for z >= 0: the table, interpolated linearly between knots,
\* and 1 beyond its last knot.
LogisticPos(z) ==
  LET step == SCALE \div 4
      k    == z \div step
      r    == z % step
  IN  IF k + 1 >= Len(LogisticTable) THEN SCALE
      ELSE LogisticTable[k + 1]
             + RDiv((LogisticTable[k + 2] - LogisticTable[k + 1]) * r, step)

\* 1.0 / (1.0 + np.exp(-z))
Logistic(z) == IF z >= 0 THEN LogisticPos(z) ELSE SCALE - LogisticPos(-z)

sigmoid(z) == Logistic(Clip(z, -SIGMOID_CLIP * SCALE, SIGMOID_CLIP * SCALE))

\* One row of add_bias(X): the row with a leading 1.0.
add_bias_row(x) == <<SCALE>> \o x

add_bias(X) == [i \in 1..Len(X) |-> add_bias_row(X[i])]

\* Row i of Xb times w.
Dot(x, w) == SeqSum([j \in 1..Len(x) |-> FMul(x[j], w[j])])

predict_logistic_regression(Xb, w) ==
  [i \in 1..Len(Xb) |-> sigmoid(Dot(Xb[i], w))]

\* -------------------------------------------------------------------------
\* Time features (forecast_12h_from_txt, lines 82-101 and 109-121)
\* -------------------------------------------------------------------------

MINUTES_PER_HOUR == 60
HOURS_PER_DAY == 24
DAYS_PER_WEEK == 7

\* Series.dt.hour, .dt.minute, .dt.dayofweek (Monday = 0).
DtHour(ts) == (ts \div MINUTES_PER_HOUR) % HOURS_PER_DAY
DtMinute(ts) == ts % MINUTES_PER_HOUR
DtDayOfWeek(ts) == (ts \div (MINUTES_PER_HOUR * HOURS_PER_DAY)) % DAYS_PER_WEEK

SinTable24 ==
  << 0, 259, 500, 707, 866, 966, 1000, 966, 866, 707, 500, 259, 0, -259,
     -500, -707, -866, -966, -1000, -966, -866, -707, -500, -259 >>
CosTable24 ==
  << 1000, 966, 866, 707, 500, 259, 0, -259, -500, -707, -866, -966, -1000,
     -966, -866, -707, -500, -259, 0, 259, 500, 707, 866, 966 >>
SinTable60 ==
  << 0, 105, 208, 309, 407, 500, 588, 669, 743, 809, 866, 914, 951, 978,
     995, 1000, 995, 978, 951, 914, 866, 809, 743, 669, 588, 500, 407, 309,
     208, 105, 0, -105, -208, -309, -407, -500, -588, -669, -743, -809, -866,
     -914, -951, -978, -995, -1000, -995, -978, -951, -914, -866, -809, -743,
     -669, -588, -500, -407, -309, -208, -105 >>
CosTable60 ==
  << 1000, 995, 978, 951, 914, 866, 809, 743, 669, 588, 500, 407, 309, 208,
     105, 0, -105, -208, -309, -407, -500, -588, -669, -743, -809, -866,
     -914, -951, -978, -995, -1000, -995, -978, -951, -914, -866, -809, -743,
     -669, -588, -500, -407, -309, -208, -105, 0, 105, 208, 309, 407, 500,
     588, 669, 743, 809, 866, 914, 951, 978, 995 >>
SinTable7 == << 0, 782, 975, 434, -434, -975, -782 >>
CosTable7 == << 1000, 623, -223, -901, -901, -223, 623 >>

\* np.sin(2 * np.pi * k / period) and np.cos(2 * np.pi * k / period) for the
\* three periods the program uses, 0 <= k < period.
NpSin(k, period) ==
  CASE period = 24 -> SinTable24[k + 1]
    [] period = 60 -> SinTable60[k + 1]
    [] period = 7  -> SinTable7[k + 1]
NpCos(k, period) ==
  CASE period = 24 -> CosTable24[k + 1]
    [] period = 60 -> CosTable60[k + 1]
    [] period = 7  -> CosTable7[k + 1]

\* (df['dayofweek'] >= 5).astype(int), as a float feature.
IsWeekendTrain(dow) == IF dow >= 5 THEN SCALE ELSE 0

\* Lines 83-101: one row of X_train, in the order of `features`.
TrainFeatures(ts) ==
  LET hour      == DtHour(ts)
      minute    == DtMinute(ts)
      dayofweek == DtDayOfWeek(ts)
  IN  << NpSin(hour, 24), NpCos(hour, 24),
         NpSin(minute, 60), NpCos(minute, 60),
         NpSin(dayofweek, 7), NpCos(dayofweek, 7),
         IsWeekendTrain(dayofweek) >>

\* A weekend test under a Sunday = 0 numbering.
IsWeekendSundayFirst(dow) == IF dow = 0 \/ dow >= 6 THEN SCALE ELSE 0

\* (df_future['dayofweek'] >= 5).astype(int), as a float feature.
IsWeekendFuture(dow) == IF dow >= 5 THEN SCALE ELSE 0

\* Lines 110-121: one row of X_future, in the order of `features`.
FutureFeatures(ts) ==
  LET hour      == DtHour(ts)
      minute    == DtMinute(ts)
      dayofweek == DtDayOfWeek(ts)
  IN  << NpSin(hour, 24), NpCos(hour, 24),
         NpSin(minute, 60), NpCos(minute, 60),
         NpSin(dayofweek, 7), NpCos(dayofweek, 7),
         IsWeekendFuture(dayofweek) >>

\* -------------------------------------------------------------------------
\* logistic_regression_train (lines 23-50)
\* -------------------------------------------------------------------------

\* Index 0 of a numpy vector is index 1 of the sequence that models it: the
\* bias weight is w[1].

\* np.zeros(Xb.shape[1])
ZeroWeights(m) == [j \in 1..m |-> 0]

\* Line 37: (Xb.T @ (y_pred - y)) / n
DataGradient(Xb, y, w) ==
  LET n      == Len(y)
      y_pred == predict_logistic_regression(Xb, w)
      err    == Tabulate(LAMBDA i : y_pred[i] - y[i] * SCALE, n)
  IN  Tabulate(LAMBDA j :
                 RDiv(SeqSum([i \in 1..n |-> Xb[i][j] * err[i]]), SCALE * n),
               Len(w))

\* A penalty on every weight, the bias included.
RegularizationWithBias(w) == w

\* Line 41: np.r_[0.0, w[1:]]
Regularization(w) == [j \in 1..Len(w) |-> IF j = 1 THEN 0 ELSE w[j]]

\* Lines 36-42: the gradient of one iteration.
Gradient(Xb, y, w, l2) ==
  LET g == DataGradient(Xb, y, w)
  IN  IF l2 > 0
        THEN LET regularization == Regularization(w)
             IN  Tabulate(LAMBDA j : g[j] + FMul(l2, regularization[j]),
                          Len(w))
        ELSE g

\* Line 44: w -= learning_rate * gradient
Descend(w, learning_rate, gradient) ==
  Tabulate(LAMBDA j : w[j] - FMul(learning_rate, gradient[j]), Len(w))

\* 1e-6 is 1 / GRAD_TOL_INV.
GRAD_TOL_INV == 1000000

NormSq(g) == SeqSum([j \in 1..Len(g) |-> g[j] * g[j]])

\* Line 47: np.linalg.norm(gradient) < 1e-6.  The squared norm counts
\* 1/SCALE^2 units, so the norm is below 1/GRAD_TOL_INV exactly when the
\* count is below SCALE/GRAD_TOL_INV.
EarlyStop(gradient) ==
  LET ns == NormSq(gradient)
  IN  ns < SCALE /\ ns * GRAD_TOL_INV < SCALE

\* -------------------------------------------------------------------------
\* load_txt_to_dataframe (lines 56-67)
\* -------------------------------------------------------------------------

\* A row of the file is [timestamp, occupied]: the timestamp in minutes, the
\* second field as its text.

\* Field texts pd.read_csv reads as numbers, with the value astype(int)
\* gives each (a float column is truncated towards zero).
NumericText == {"0", "1", "2", "-1", "0.7"}
IntOfText(text) ==
  CASE text = "0"   -> 0
    [] text = "1"   -> 1
    [] text = "2"   -> 2
    [] text = "-1"  -> -1
    [] text = "0.7" -> 0

\* Field texts that are integer literals.
IntegerText == {"0", "1", "2", "-1"}

FREQ_MINUTES == 5

Failure(kind) == [status |-> "error", error |-> kind, df |-> <<>>]
Frame(df) == [status |-> "ok", error |-> "", df |-> df]

\* Line 60: df['occupied'].astype(int) succeeds.
AstypeIntOk(rs) == \A k \in 1..Len(rs) : rs[k].occupied \in NumericText

\* Line 60: the column after astype(int).
AstypeInt(rs) ==
  [k \in 1..Len(rs) |->
     [timestamp |-> rs[k].timestamp, occupied |-> IntOfText(rs[k].occupied)]]

\* Line 61: sort_values('timestamp').  Rows with equal timestamps may come
\* out in either order; this takes the order of insertion.
RECURSIVE SortValues(_)
SortValues(rs) ==
  IF Len(rs) <= 1 THEN rs
  ELSE LET last == rs[Len(rs)]
           head == SortValues(SubSeq(rs, 1, Len(rs) - 1))
           lo   == SelectSeq(head, LAMBDA r : r.timestamp <= last.timestamp)
           hi   == SelectSeq(head, LAMBDA r : r.timestamp > last.timestamp)
       IN  lo \o <<last>> \o hi

\* The index has no repeated label.
IndexIsUnique(rs) ==
  \A a, b \in 1..Len(rs) : rs[a].timestamp = rs[b].timestamp => a = b

\* date_range rounding the range up to a whole number of steps.
DateRangeCovering(lo, hi) ==
  [k \in 1..((hi - lo + FREQ_MINUTES - 1) \div FREQ_MINUTES + 1) |->
     lo + FREQ_MINUTES * (k - 1)]

\* asfreq: pd.date_range(index.min(), index.max(), freq='5min').
DateRange(lo, hi) ==
  [k \in 1..((hi - lo) \div FREQ_MINUTES + 1) |-> lo + FREQ_MINUTES * (k - 1)]

\* asfreq: reindex onto the new index; a label the frame lacks gives NaN.
Reindex(rs, index) ==
  [k \in 1..Len(index) |->
     IF \E a \in 1..Len(rs) : rs[a].timestamp = index[k]
       THEN LET a == CHOOSE a \in 1..Len(rs) : rs[a].timestamp = index[k]
            IN  [timestamp |-> index[k], isna |-> FALSE,
                 occupied |-> rs[a].occupied]
       ELSE [timestamp |-> index[k], isna |-> TRUE, occupied |-> 0]]

\* Line 65: .fillna(0).astype(int)
FILL_VALUE == 0

\* A fill that carries the previous slot's label forward.
RECURSIVE FillForward(_)
FillForward(cells) ==
  IF Len(cells) = 0 THEN <<>>
  ELSE LET head == FillForward(SubSeq(cells, 1, Len(cells) - 1))
           c    == cells[Len(cells)]
       IN  Append(head,
                  [timestamp |-> c.timestamp,
                   occupied |-> IF c.isna THEN head[Len(head)].occupied
                                ELSE c.occupied])

FillNa(cells) ==
  [k \in 1..Len(cells) |->
     [timestamp |-> cells[k].timestamp,
      occupied |-> IF cells[k].isna THEN FILL_VALUE ELSE cells[k].occupied]]

\* Line 65: df.asfreq('5min').fillna(0).astype(int), on a sorted frame with
\* a unique index.
AsFreq(rs) ==
  FillNa(Reindex(rs, DateRange(rs[1].timestamp, rs[Len(rs)].timestamp)))

\* The whole function: the frame it returns or the exception it raises.
load_txt_to_dataframe(file) ==
  IF Len(file) = 0 THEN Failure("EmptyDataError")
  ELSE IF ~AstypeIntOk(file) THEN Failure("ValueError")
  ELSE LET sorted == SortValues(AstypeInt(file))
       IN  IF ~IndexIsUnique(sorted) THEN Failure("ValueError")
           ELSE Frame(AsFreq(sorted))

\* -------------------------------------------------------------------------
\* State
\* -------------------------------------------------------------------------

VARIABLES
  rows,        \* the rows of the file handed to load_txt_to_dataframe
  loaded,      \* what that call produced: nothing yet, a dataframe, an error
  enc,         \* a timestamp and its feature row at train and predict time
  tr,          \* the frame of the running logistic_regression_train call
  req,         \* /forecast requests: position, upload, threshold, response
  in_file,     \* the file at filepath_txt (temp_input.txt under the API)
  out_file,    \* the JSON file forecast_12h_from_txt writes
  frame        \* the frame of the running forecast_12h_from_txt call

vars == << rows, loaded, enc, tr, req, in_file, out_file, frame >>

\* No forecast_12h_from_txt call in progress.
NoFrame ==
  [pc |-> "none", owner |-> 0, df |-> <<>>, last_timestamp |-> 0,
   model |-> <<>>, error |-> ""]

\* -------------------------------------------------------------------------
\* logistic_regression_train as a process: call, loop, return
\* -------------------------------------------------------------------------

\* A default penalty equal to the one the pipeline passes (line 124).
DefaultL2OfPipeline == 5 + 5

\* Signature defaults, lines 26-28.
DefaultLearningRate == 50
DefaultIterations == 3000
DefaultL2 == 0

\* The value a parameter takes: the keyword argument when the caller gave
\* one, the signature default otherwise.
Param(kwargs, name) ==
  IF name \in DOMAIN kwargs THEN kwargs[name]
  ELSE CASE name = "learning_rate" -> DefaultLearningRate
         [] name = "iterations"    -> DefaultIterations
         [] name = "l2"            -> DefaultL2

\* No call in progress.
NoTrain ==
  [pc |-> "none", X |-> <<>>, y |-> <<>>, kwargs |-> <<>>,
   learning_rate |-> 0, iterations |-> 0, l2 |-> 0,
   Xb |-> <<>>, w |-> <<>>, n |-> 0, i |-> 0, gradient |-> <<>>,
   updates |-> 0, broke |-> FALSE, prev |-> <<>>]

\* The frame of a call logistic_regression_train(X, y, **kwargs), before its
\* first line runs.
TrainCall(X, y, kwargs) ==
  [NoTrain EXCEPT !.pc = "call", !.X = X, !.y = y, !.kwargs = kwargs]

\* Lines 23-33: bind the parameters, add the bias column, zero the weights.
TrainEnter ==
  /\ tr.pc = "call"
  /\ tr' = [tr EXCEPT
              !.pc = "loop",
              !.learning_rate = Param(tr.kwargs, "learning_rate"),
              !.iterations = Param(tr.kwargs, "iterations"),
              !.l2 = Param(tr.kwargs, "l2"),
              !.Xb = add_bias(tr.X),
              !.w = ZeroWeights(Len(tr.X[1]) + 1),
              !.n = Len(tr.y),
              !.i = 0]
  /\ UNCHANGED << rows, loaded, enc, req, in_file, out_file, frame >>

\* A loop bound that is off by one.
LoopContinuesInclusive(i, iterations) == i <= iterations

\* Line 35: range(iterations) still has a value for the loop variable.
LoopContinues(i, iterations) == i < iterations

\* Lines 35-48: one pass of the loop body.  `updates` counts the executions
\* of line 44; `broke` records that line 48 ran.
TrainIter ==
  /\ tr.pc = "loop"
  /\ LoopContinues(tr.i, tr.iterations)
  /\ \E gradient \in {Gradient(tr.Xb, tr.y, tr.w, tr.l2)} :
         tr' = [tr EXCEPT
                  !.gradient = gradient,
                  !.w = Descend(tr.w, tr.learning_rate, gradient),
                  !.updates = tr.updates + 1,
                  !.i = tr.i + 1,
                  !.broke = EarlyStop(gradient),
                  !.pc = IF EarlyStop(gradient) THEN "return" ELSE "loop"]
  /\ UNCHANGED << rows, loaded, enc, req, in_file, out_file, frame >>

\* Line 35, range exhausted: fall out of the loop to line 50.
TrainExhaust ==
  /\ tr.pc = "loop"
  /\ ~LoopContinues(tr.i, tr.iterations)
  /\ tr' = [tr EXCEPT !.pc = "return"]
  /\ UNCHANGED << rows, loaded, enc, req, in_file, out_file, frame >>

\* -------------------------------------------------------------------------
\* forecast_12h_from_txt as a process: load, train, predict, write
\* -------------------------------------------------------------------------

\* Line 106: periods=144; line 126: y_prob >= 0.6.
PERIODS == 144
DECISION_THRESHOLD == 600

\* The keyword arguments of line 124.
PipelineKwargs == [learning_rate |-> 50, iterations |-> 3000, l2 |-> 10]

\* Lines 101-102: X_train and y_train.
XTrain(df) == [k \in 1..Len(df) |-> TrainFeatures(df[k].timestamp)]
YTrain(df) == [k \in 1..Len(df) |-> df[k].occupied]

\* Line 105: df['timestamp'].max()
LastTimestamp(df) ==
  CHOOSE t \in {df[k].timestamp : k \in 1..Len(df)} :
    \A k \in 1..Len(df) : df[k].timestamp <= t

\* A future grid that starts at the last historical timestamp itself.
FutureTimestampsFromLast(last_timestamp) ==
  [i \in 1..PERIODS |-> last_timestamp + FREQ_MINUTES * (i - 1)]

\* Line 106: pd.date_range(start=last_timestamp + 5min, periods=144,
\* freq='5min')
FutureTimestamps(last_timestamp) ==
  [i \in 1..PERIODS |-> (last_timestamp + FREQ_MINUTES) + FREQ_MINUTES * (i - 1)]

\* Line 126: (y_prob >= 0.6).astype(int)
Decide(prob) == IF prob >= DECISION_THRESHOLD THEN 1 ELSE 0

\* Lines 121-131: the predictions for the slots after last_timestamp under
\* the weights `model`.  strftime keeps a whole-minute timestamp as it is.
Predictions(last_timestamp, model) ==
  LET future == FutureTimestamps(last_timestamp)
      y_prob == predict_logistic_regression(
                  add_bias([i \in 1..Len(future) |-> FutureFeatures(future[i])]),
                  model)
  IN  [i \in 1..Len(future) |->
         [timestamp |-> future[i], value |-> Decide(y_prob[i])]]

\* A call forecast_12h_from_txt(filepath_txt, output_folder) made for `owner`
\* (0: the command line's loop over the input folder).
ForecastCall(owner) == [NoFrame EXCEPT !.pc = "call", !.owner = owner]

\* Lines 75-121: load the file and build the training matrices, then call
\* the trainer (line 124).  An exception of the loader leaves the function.
ForecastStart ==
  /\ frame.pc = "call"
  /\ LET res == load_txt_to_dataframe(in_file)
     IN  IF res.status = "error"
           THEN /\ frame' = [frame EXCEPT !.pc = "raised", !.error = res.error]
                /\ tr' = tr
           ELSE /\ frame' = [frame EXCEPT
                               !.pc = "train",
                               !.df = res.df,
                               !.last_timestamp = LastTimestamp(res.df)]
                /\ tr' = TrainCall(XTrain(res.df), YTrain(res.df),
                                   PipelineKwargs)
  /\ UNCHANGED << rows, loaded, enc, req, in_file, out_file >>

\* Lines 124-137: take the trained weights, predict, threshold, write the
\* JSON file.
ForecastFinish ==
  /\ frame.pc = "train"
  /\ tr.pc = "return"
  /\ out_file' = Predictions(frame.last_timestamp, tr.w)
  /\ frame' = [frame EXCEPT !.pc = "done", !.model = tr.w]
  /\ tr' = NoTrain
  /\ UNCHANGED << rows, loaded, enc, req, in_file >>

\* -------------------------------------------------------------------------
\* compute_forecast (src/api.py, lines 29-52) on one event loop
\* -------------------------------------------------------------------------

\* A request is new, awaiting (suspended at `await file.read()` with
\* temp_input.txt open for writing), running (in the synchronous rest of
\* the handler), done or failed.  The synchronous rest holds the event
\* loop: no other handler moves while frame.pc is not "none".

NewRequest ==
  [pc |-> "new", upload |-> <<>>, threshold |-> 0, response |-> <<>>,
   model |-> <<>>, df |-> <<>>, error |-> ""]

\* f.write(data) on a handle opened before `present` was written: the data
\* replaces the start of the file and what lies beyond it stays.
WriteFromStart(present, data) ==
  data \o SubSeq(present, Len(data) + 1, Len(present))

\* Lines 29-36, up to the await: the request arrives with its upload and
\* threshold, open(temp_path, "wb") empties the file, and the handler
\* suspends while the upload is read.
Open(r, upload, threshold) ==
  /\ frame.pc = "none"
  /\ req[r].pc = "new"
  /\ req' = [req EXCEPT ![r] = [@ EXCEPT !.pc = "awaiting",
                                         !.upload = upload,
                                         !.threshold = threshold]]
  /\ in_file' = <<>>
  /\ UNCHANGED << rows, loaded, enc, tr, out_file, frame >>

\* Lines 36-42, after the await: write the upload through the handle, close
\* it, and call forecast_12h_from_txt(temp_path, output_folder).
Resume(r) ==
  /\ frame.pc = "none"
  /\ req[r].pc = "awaiting"
  /\ in_file' = WriteFromStart(in_file, req[r].upload)
  /\ frame' = ForecastCall(r)
  /\ req' = [req EXCEPT ![r] = [@ EXCEPT !.pc = "running"]]
  /\ UNCHANGED << rows, loaded, enc, tr, out_file >>

\* Lines 45-52: read temp_out/temp_input_pred.json back and return it.  The
\* request keeps, for the record, the weights and the frame it was served
\* from.
Respond(r) ==
  /\ frame.pc = "done"
  /\ frame.owner = r
  /\ req[r].pc = "running"
  /\ req' = [req EXCEPT ![r] = [@ EXCEPT !.pc = "done",
                                         !.response = out_file,
                                         !.model = frame.model,
                                         !.df = frame.df]]
  /\ frame' = NoFrame
  /\ UNCHANGED << rows, loaded, enc, tr, in_file, out_file >>

\* Line 42 raised: the exception leaves the handler and the request fails.
Fail(r) ==
  /\ frame.pc = "raised"
  /\ frame.owner = r
  /\ req[r].pc = "running"
  /\ req' = [req EXCEPT ![r] = [@ EXCEPT !.pc = "failed",
                                         !.error = frame.error]]
  /\ frame' = NoFrame
  /\ UNCHANGED << rows, loaded, enc, tr, in_file, out_file >>

\* -------------------------------------------------------------------------
\* Specification SpecTrain: calls of logistic_regression_train
\* -------------------------------------------------------------------------

MaxTrainRows == 2
MaxIterations == 3

\* Label vectors of 1..n entries.
LabelVectors(n) == UNION {[1..k -> {0, 1}] : k \in 1..n}

\* Saturday 23:50: the rows run into Sunday.
TrainStart == 5 * 1440 + 1430

\* Feature rows of k consecutive 5-minute slots from `start`.
SlotFeatures(start, k) ==
  [i \in 1..k |-> TrainFeatures(start + FREQ_MINUTES * (i - 1))]

\* A call with features and labels only.
NoKwargs == <<>>

\* A call that spells out the three values of the signature.
SignatureKwargs == [learning_rate |-> 50, iterations |-> 3000, l2 |-> 0]

\* Keyword arguments of a first call: none, or all three chosen freely (a
\* small or a very large learning rate, with or without the penalty).
TrainKwargs ==
  {NoKwargs}
    \cup [learning_rate : {50, 100 * SCALE},
          iterations : 0..MaxIterations,
          l2 : {0, 10}]

InitTrain ==
  /\ \E y \in LabelVectors(MaxTrainRows), kwargs \in TrainKwargs :
       tr = TrainCall(SlotFeatures(TrainStart, Len(y)), y, kwargs)
  /\ rows = <<>>
  /\ loaded = [status |-> "none", error |-> "", df |-> <<>>]
  /\ enc = <<>>
  /\ req = <<>>
  /\ in_file = <<>>
  /\ out_file = <<>>
  /\ frame = NoFrame

\* Line 50 for a caller that only keeps the weights.
TrainReturn ==
  /\ tr.pc = "return"
  /\ frame.pc = "none"
  /\ tr' = [tr EXCEPT !.pc = "done"]
  /\ UNCHANGED << rows, loaded, enc, req, in_file, out_file, frame >>

\* The caller of a keyword-free call trains again on the same data, now
\* with keyword arguments, keeping the first weights in `prev`.
TrainAgain(kwargs) ==
  /\ tr.pc = "done"
  /\ DOMAIN tr.kwargs = {}
  /\ tr.prev = <<>>
  /\ tr' = [TrainCall(tr.X, tr.y, kwargs) EXCEPT !.prev = tr.w]
  /\ UNCHANGED << rows, loaded, enc, req, in_file, out_file, frame >>

NextTrain ==
  \/ TrainEnter
  \/ TrainIter
  \/ TrainExhaust
  \/ TrainReturn
  \/ \E kwargs \in {SignatureKwargs, PipelineKwargs} : TrainAgain(kwargs)

SpecTrain == InitTrain /\ [][NextTrain]_vars

\* -------------------------------------------------------------------------
\* Specification SpecEnc: the two feature encodings of one timestamp
\* -------------------------------------------------------------------------

\* Timestamps of one week, minute by minute.
MaxEncTs == 10079

InitEnc ==
  /\ enc \in [ts : 0..MaxEncTs, train : {<<>>}, future : {<<>>}]
  /\ tr = NoTrain
  /\ rows = <<>>
  /\ loaded = [status |-> "none", error |-> "", df |-> <<>>]
  /\ req = <<>>
  /\ in_file = <<>>
  /\ out_file = <<>>
  /\ frame = NoFrame

\* Lines 83-101 on a historical row with this timestamp.
EncodeTrain ==
  /\ enc.train = <<>>
  /\ enc' = [enc EXCEPT !.train = TrainFeatures(enc.ts)]
  /\ UNCHANGED << rows, loaded, tr, req, in_file, out_file, frame >>

\* Lines 110-121 on a future row with this timestamp.
EncodeFuture ==
  /\ enc.future = <<>>
  /\ enc' = [enc EXCEPT !.future = FutureFeatures(enc.ts)]
  /\ UNCHANGED << rows, loaded, tr, req, in_file, out_file, frame >>

NextEnc == EncodeTrain \/ EncodeFuture

SpecEnc == InitEnc /\ [][NextEnc]_vars

\* -------------------------------------------------------------------------
\* Specification SpecLoad: calls of load_txt_to_dataframe
\* -------------------------------------------------------------------------

MaxRows == 2
MaxTs == 10

LabelTexts == NumericText \cup {"x"}

FileRows == [timestamp : 0..MaxTs, occupied : LabelTexts]

Files(n) == UNION {[1..k -> FileRows] : k \in 0..n}

Idle ==
  /\ enc = <<>>
  /\ tr = NoTrain
  /\ req = <<>>
  /\ in_file = <<>>
  /\ out_file = <<>>
  /\ frame = NoFrame

InitLoad ==
  /\ rows \in Files(MaxRows)
  /\ loaded = [status |-> "none", error |-> "", df |-> <<>>]
  /\ Idle

Load ==
  /\ loaded.status = "none"
  /\ loaded' = load_txt_to_dataframe(rows)
  /\ UNCHANGED << rows, enc, tr, req, in_file, out_file, frame >>

NextLoad == Load

SpecLoad == InitLoad /\ [][NextLoad]_vars

\* -------------------------------------------------------------------------
\* Specification Spec: one forecast_12h_from_txt call of the command line
\* -------------------------------------------------------------------------

MaxHistory == 3

\* Saturday 23:50.
HistoryStart == 5 * 1440 + 1430

\* Histories of k rows at consecutive 5-minute slots, each free or occupied;
\* k = 0 is the empty file.
Histories(n) ==
  UNION {{[i \in 1..k |->
             [timestamp |-> HistoryStart + FREQ_MINUTES * (i - 1),
              occupied |-> occ[i]]] : occ \in [1..k -> {"0", "1"}]}
         : k \in 0..n}

Init ==
  /\ in_file \in Histories(MaxHistory)
  /\ out_file = <<>>
  /\ frame = ForecastCall(0)
  /\ tr = NoTrain
  /\ rows = <<>>
  /\ loaded = [status |-> "none", error |-> "", df |-> <<>>]
  /\ enc = <<>>
  /\ req = <<>>

Next == ForecastStart \/ TrainEnter \/ TrainIter \/ TrainExhaust \/ ForecastFinish

Spec == Init /\ [][Next]_vars

\* -------------------------------------------------------------------------
\* Specification SpecApi: concurrent POST /forecast requests
\* -------------------------------------------------------------------------

NumClients == 2

Clients == 1..NumClients

\* Uploaded histories: three occupied slots, one free slot, an empty file.
Row(t, occ) == [timestamp |-> t, occupied |-> occ]
Uploads ==
  { << Row(0, "1"), Row(5, "1"), Row(10, "1") >>,
    << Row(0, "0") >>,
    << >> }

\* The threshold query parameter: its default 0.6, or 0.
Thresholds == {DECISION_THRESHOLD, 0}

InitApi ==
  /\ req = [r \in Clients |-> NewRequest]
  /\ in_file = <<>>
  /\ out_file = <<>>
  /\ frame = NoFrame
  /\ tr = NoTrain
  /\ rows = <<>>
  /\ loaded = [status |-> "none", error |-> "", df |-> <<>>]
  /\ enc = <<>>

NextApi ==
  \/ \E r \in Clients, upload \in Uploads, threshold \in Thresholds :
       Open(r, upload, threshold)
  \/ \E r \in Clients : Resume(r)
  \/ ForecastStart
  \/ TrainEnter
  \/ TrainIter
  \/ TrainExhaust
  \/ ForecastFinish
  \/ \E r \in Clients : Respond(r)
  \/ \E r \in Clients : Fail(r)

SpecApi == InitApi /\ [][NextApi]_vars

\* -------------------------------------------------------------------------
\* Properties of load_txt_to_dataframe (SpecLoad)
\* -------------------------------------------------------------------------

RawTimestamps == {rows[a].timestamp : a \in 1..Len(rows)}
RawMin == CHOOSE t \in RawTimestamps : \A u \in RawTimestamps : t <= u
RawMax == CHOOSE t \in RawTimestamps : \A u \in RawTimestamps : u <= t

\* The returned frame is a grid: increasing, 5 minutes apart, from the
\* smallest raw timestamp.
GridFromMin(df) ==
  /\ Len(df) >= 1
  /\ df[1].timestamp = RawMin
  /\ \A k \in 1..(Len(df) - 1) :
       /\ df[k].timestamp < df[k + 1].timestamp
       /\ df[k + 1].timestamp - df[k].timestamp = 5

\* C1 as stated: the frame returned for a history is strictly increasing in
\* 5-minute steps, starts at the smallest raw timestamp and ends at the
\* largest one, whether or not the raw timestamps lie on a 5-minute grid.
C1_EndsAtRawMax ==
  loaded.status = "ok" =>
    /\ GridFromMin(loaded.df)
    /\ loaded.df[Len(loaded.df)].timestamp = RawMax

\* C1 amended: every non-empty history with 0/1 labels and no repeated
\* timestamp gets a frame; a returned frame is strictly increasing in
\* 5-minute steps from the smallest raw timestamp, and its last timestamp is
\* the last grid point not after the largest raw timestamp: less than 5
\* minutes before it, and equal to it exactly when the raw range is a
\* multiple of 5 minutes.
C1_RegularGrid ==
  /\ ( /\ loaded.status # "none"
       /\ Len(rows) >= 1
       /\ \A a \in 1..Len(rows) : rows[a].occupied \in {"0", "1"}
       /\ \A a, b \in 1..Len(rows) :
            rows[a].timestamp = rows[b].timestamp => a = b )
       => loaded.status = "ok"
  /\ loaded.status = "ok" =>
       LET last == loaded.df[Len(loaded.df)].timestamp
       IN  /\ GridFromMin(loaded.df)
           /\ last <= RawMax
           /\ RawMax - last < 5
           /\ (last = RawMax) <=> ((RawMax - RawMin) % 5 = 0)

\* An unsorted history off the 5-minute grid was loaded into a frame of
\* several slots.
C1_Witness ==
  /\ loaded.status = "ok"
  /\ Len(rows) = 2
  /\ rows[1].timestamp > rows[2].timestamp
  /\ (RawMax - RawMin) % 5 # 0
  /\ Len(loaded.df) >= 2

\* The raw rows observed at timestamp t.
ObservedAt(t) == {a \in 1..Len(rows) : rows[a].timestamp = t}

\* C4: in a returned frame, a slot with a raw observation at its timestamp
\* carries that observation's label, and a slot with none carries 0.
C4_SlotLabels ==
  loaded.status = "ok" =>
    \A k \in 1..Len(loaded.df) :
      LET obs == ObservedAt(loaded.df[k].timestamp)
      IN  /\ obs = {} => loaded.df[k].occupied = 0
          /\ \A a \in obs :
               /\ rows[a].occupied = "0" => loaded.df[k].occupied = 0
               /\ rows[a].occupied = "1" => loaded.df[k].occupied = 1
               /\ rows[a].occupied = "2" => loaded.df[k].occupied = 2
               /\ rows[a].occupied = "-1" => loaded.df[k].occupied = -1

\* A frame with an occupied observed slot and a gap filled between two
\* observations.
C4_Witness ==
  /\ loaded.status = "ok"
  /\ Len(loaded.df) = 3
  /\ ObservedAt(loaded.df[2].timestamp) = {}
  /\ loaded.df[2].occupied = 0
  /\ \E a \in ObservedAt(loaded.df[1].timestamp) : rows[a].occupied = "1"
  /\ loaded.df[1].occupied = 1

\* C5: a history with a label that is not 0 or 1 is refused, so every label
\* of a returned frame is 0 or 1.
C5_RejectsNonBinary ==
  loaded.status # "none" =>
    /\ (\E a \in 1..Len(rows) : rows[a].occupied \notin {"0", "1"})
         => loaded.status = "error"
    /\ loaded.status = "ok" =>
         \A k \in 1..Len(loaded.df) : loaded.df[k].occupied \in {0, 1}

\* -------------------------------------------------------------------------
\* Properties of the feature encoding (SpecEnc)
\* -------------------------------------------------------------------------

\* The seven features in the order of `features`.
ExpectedFeatures(ts) ==
  << NpSin(DtHour(ts), 24), NpCos(DtHour(ts), 24),
     NpSin(DtMinute(ts), 60), NpCos(DtMinute(ts), 60),
     NpSin(DtDayOfWeek(ts), 7), NpCos(DtDayOfWeek(ts), 7),
     IF DtDayOfWeek(ts) >= 5 THEN SCALE ELSE 0 >>

\* C10: a timestamp gets the same seven features, in the same order, as a
\* historical row and as a future row, and is_weekend is 1 exactly on
\* Saturday and Sunday.
C10_SameEncoding ==
  /\ enc.train # <<>> => enc.train = ExpectedFeatures(enc.ts)
  /\ enc.future # <<>> => enc.future = ExpectedFeatures(enc.ts)
  /\ (enc.train # <<>> /\ enc.future # <<>>) =>
       /\ enc.train = enc.future
       /\ Len(enc.train) = 7
       /\ (enc.future[7] = SCALE) <=> (DtDayOfWeek(enc.ts) \in {5, 6})
       /\ (enc.future[7] = 0) <=> (DtDayOfWeek(enc.ts) \in 0..4)

\* A Saturday afternoon timestamp encoded both ways.
C10_Witness ==
  /\ enc.train # <<>>
  /\ enc.future # <<>>
  /\ DtDayOfWeek(enc.ts) = 5
  /\ DtHour(enc.ts) = 15
  /\ DtMinute(enc.ts) = 35
  /\ enc.future[7] = SCALE

\* -------------------------------------------------------------------------
\* Properties of logistic_regression_train (SpecTrain)
\* -------------------------------------------------------------------------

\* What holds of the frame t of a call at every moment: at most
\* `iterations` updates, one per pass; none and all-zero weights when
\* iterations = 0; the loop left early only on a gradient norm below 1e-6,
\* and never continued after one; a call that returns without it has used
\* all its iterations.
TrainFrameOk(t) ==
  /\ t.updates <= t.iterations
  /\ t.updates = t.i
  /\ (t.pc \in {"return", "done"} /\ t.iterations = 0) =>
       (t.updates = 0 /\ t.w = ZeroWeights(Len(t.X[1]) + 1))
  /\ t.broke => (t.pc \in {"return", "done"} /\ NormSq(t.gradient) = 0)
  /\ (t.pc = "loop" /\ t.i > 0) => NormSq(t.gradient) # 0
  /\ (t.pc \in {"return", "done"} /\ ~t.broke) =>
       (t.i = t.iterations /\ Len(t.w) = Len(t.X[1]) + 1)

\* C7: a call makes at most `iterations` weight updates, none when
\* iterations = 0 (the weights stay all zero); it leaves the loop at the
\* first iteration whose gradient norm is below 1e-6 and not before, and
\* updates no weight afterwards; running out of iterations without meeting
\* the criterion also returns the weights.  The call terminates: every step
\* in the loop uses up one of the `iterations` or leaves the loop, and a
\* call that left the loop returns the weights it left with.
C7_TrainTerminates ==
  [][ /\ TrainFrameOk(tr)
      /\ TrainFrameOk(tr')
      /\ tr.pc \in {"return", "done"} => (tr'.pc = "call" \/ tr'.w = tr.w)
      /\ tr.pc = "return" => tr'.pc = "done"
      /\ tr.pc = "loop" =>
           \/ /\ tr'.pc = "loop"
              /\ tr'.i = tr.i + 1
              /\ tr'.i <= tr.iterations
           \/ tr'.pc = "return" ]_vars

\* A call left its loop early, after more than one update and before its
\* iterations ran out.
C7_Witness ==
  /\ tr.pc = "done"
  /\ tr.broke
  /\ tr.updates > 1
  /\ tr.updates < tr.iterations

\* C8 as stated: a call with features and labels only runs with
\* learning_rate 0.05, iterations 3000 and l2 0.01, and returns the weights
\* of the pipeline's call (line 124) on the same data.
C8_DefaultsArePipeline ==
  /\ (DOMAIN tr.kwargs = {} /\ tr.pc # "call") =>
       /\ tr.learning_rate = 50
       /\ tr.iterations = 3000
       /\ tr.l2 = 10
  /\ (tr.pc = "done" /\ tr.prev # <<>> /\ tr.kwargs = PipelineKwargs) =>
       tr.w = tr.prev

\* C8 amended: a call with features and labels only runs with
\* learning_rate 0.05, iterations 3000 and l2 0.0, and returns the weights
\* of a call that passes exactly these three values on the same data.
C8_SignatureDefaults ==
  /\ (DOMAIN tr.kwargs = {} /\ tr.pc # "call") =>
       /\ tr.learning_rate = 50
       /\ tr.iterations = 3000
       /\ tr.l2 = 0
  /\ (tr.pc = "done" /\ tr.prev # <<>> /\ tr.kwargs = SignatureKwargs) =>
       tr.w = tr.prev

\* A keyword-free call and a call with the signature's values have both
\* returned, after 3000 updates on two rows of different labels.
C8_Witness ==
  /\ tr.pc = "done"
  /\ tr.prev # <<>>
  /\ tr.kwargs = SignatureKwargs
  /\ tr.updates = 3000
  /\ tr.y = <<0, 1>>
  /\ tr.w # ZeroWeights(8)

\* C9: in every iteration the gradient is the data gradient plus, when
\* l2 > 0, l2 * w[i] at every index but the bias; at the bias index it is
\* the data gradient alone, and so is the bias update; with l2 = 0 it is
\* the data gradient at every index.
C9_BiasNotRegularized ==
  [][ (tr.pc = "loop" /\ tr'.updates = tr.updates + 1) =>
        LET g == DataGradient(tr.Xb, tr.y, tr.w)
        IN  /\ tr'.gradient[1] = g[1]
            /\ tr'.w[1] = tr.w[1] - FMul(tr.learning_rate, g[1])
            /\ \A j \in 2..Len(tr.w) :
                 tr'.gradient[j] =
                   g[j] + (IF tr.l2 > 0 THEN FMul(tr.l2, tr.w[j]) ELSE 0)
            /\ tr.l2 = 0 => tr'.gradient = g ]_vars

\* An iteration with l2 > 0 whose bias weight and another weight were both
\* large enough for the penalty to show, and only the other one got it.
C9_Witness ==
  /\ tr.pc = "loop"
  /\ tr.l2 > 0
  /\ tr.updates >= 2
  /\ FMul(tr.l2, tr.w[1]) # 0
  /\ \E j \in 2..Len(tr.w) : FMul(tr.l2, tr.w[j]) # 0

\* -------------------------------------------------------------------------
\* Properties of forecast_12h_from_txt (Spec)
\* -------------------------------------------------------------------------

\* C2: a forecast that is written has exactly 144 points; point i is
\* stamped 5*i minutes after the last historical timestamp and valued 0 or
\* 1; and only a history that cannot be loaded stops the forecast.
C2_Horizon ==
  /\ frame.pc = "raised" => in_file = <<>>
  /\ frame.pc = "done" =>
       /\ Len(out_file) = 144
       /\ \A i \in 1..Len(out_file) :
            /\ out_file[i].timestamp = in_file[Len(in_file)].timestamp + 5 * i
            /\ out_file[i].timestamp = frame.df[Len(frame.df)].timestamp + 5 * i
            /\ out_file[i].value \in {0, 1}

\* A forecast from a history of several rows that predicts both states.
C2_Witness ==
  /\ frame.pc = "done"
  /\ Len(in_file) >= 2
  /\ Len(out_file) = 144
  /\ \E i \in 1..Len(out_file) : out_file[i].value = 1
  /\ \E i \in 1..Len(out_file) : out_file[i].value = 0

\* -------------------------------------------------------------------------
\* Properties of POST /forecast (SpecApi)
\* -------------------------------------------------------------------------

\* The probability the weights `model` give the slot stamped ts.
Probability(model, ts) ==
  sigmoid(Dot(add_bias_row(FutureFeatures(ts)), model))

\* C3: the value answered for a slot is 1 exactly when the model's
\* probability for the slot reaches the threshold the request gave.
C3_ThresholdApplied ==
  \A r \in DOMAIN req :
    req[r].pc = "done" =>
      \A i \in 1..Len(req[r].response) :
        (req[r].response[i].value = 1) <=>
          (Probability(req[r].model, req[r].response[i].timestamp)
             >= req[r].threshold)

\* C6: a request is answered from its own upload: it fails exactly when its
\* upload cannot be loaded, and otherwise it is served from the frame of its
\* upload, with the slots that follow that frame.
C6_Isolation ==
  \A r \in DOMAIN req :
    req[r].pc \in {"done", "failed"} =>
      LET own == load_txt_to_dataframe(req[r].upload)
      IN  IF own.status = "error" THEN req[r].pc = "failed"
          ELSE /\ req[r].pc = "done"
               /\ req[r].df = own.df
               /\ \A i \in 1..Len(req[r].response) :
                    req[r].response[i].timestamp
                      = own.df[Len(own.df)].timestamp + 5 * i

====
